---------------------------- MODULE Spec2Model ----------------------------
(***************************************************************************)
(* A model of the vitest CTRF JSON reporter (class GenerateCtrfReport).    *)
(*                                                                         *)
(* Conventions.                                                            *)
(*  - A JavaScript string is a sequence of one-character strings, so that  *)
(*    join, split, endsWith and the stack-frame regular expression work    *)
(*    on characters.                                                       *)
(*  - The JavaScript value undefined, where a string may stand, is the     *)
(*    one-element sequence Undefined; its element is not a character, so   *)
(*    it differs from every string, the empty string <<>> included.        *)
(*  - A JavaScript object is a function whose DOMAIN is the set of its own *)
(*    property names; an absent property reads as undefined.               *)
(***************************************************************************)
EXTENDS Integers, Sequences, FiniteSets, TLC

VARIABLES
    reporterOptions,        \* the options object handed to the constructor
    reporterConfigOptions,  \* this.reporterConfigOptions
    ctrfReport,             \* this.ctrfReport
    ctrfEnvironment,        \* this.ctrfEnvironment
    filename,               \* this.filename
    now,                    \* the last value Date.now() returned
    cwd,                    \* process.cwd(), or Undefined when it raises
    fs,                     \* the file system: directories, files, and the
                            \* fs.writeFileSync calls made, in order
    console,                \* the lines written by console.log / console.error
    calls,                  \* the lifecycle calls the host has made, in order
    completed,              \* the test cases handed to onTestCaseResult, in order
    thrown                  \* the exception the last call let escape, or "none"

vars == <<reporterOptions, reporterConfigOptions, ctrfReport, ctrfEnvironment,
          filename, now, cwd, fs, console, calls, completed, thrown>>

-----------------------------------------------------------------------------
(* Bounds of the model *)

MaxCalls == 4       \* lifecycle calls per behaviour
MaxClock == 1       \* the largest value Date.now() returns
MaxErrors == 2      \* errors of a failed test case

-----------------------------------------------------------------------------
(* JavaScript values *)

Undefined == <<"undefined">>

\* obj[key], undefined when obj has no such property
Get(obj, key) == IF key \in DOMAIN obj THEN obj[key] ELSE Undefined

\* a ?? b on string-valued operands
Coalesce(a, b) == IF a = Undefined THEN b ELSE a

RECURSIVE Join(_, _)
\* Array.prototype.join: undefined elements join as the empty string
Join(arr, sep) ==
    IF arr = <<>> THEN <<>>
    ELSE LET h == IF Head(arr) = Undefined THEN <<>> ELSE Head(arr)
         IN  IF Len(arr) = 1 THEN h ELSE h \o sep \o Join(Tail(arr), sep)

\* String.prototype.endsWith
EndsWith(s, suffix) ==
    /\ Len(s) >= Len(suffix)
    /\ SubSeq(s, Len(s) - Len(suffix) + 1, Len(s)) = suffix

NL == "\n"

-----------------------------------------------------------------------------
(* Program constants *)

reporterName ==
    <<"v","i","t","e","s","t","-","c","t","r","f","-","j","s","o","n",
      "-","r","e","p","o","r","t","e","r">>
defaultOutputFile ==
    <<"c","t","r","f","-","r","e","p","o","r","t",".","j","s","o","n">>
defaultOutputDir == <<"c","t","r","f">>
DotJson == <<".","j","s","o","n">>
Unit == <<"u","n","i","t">>
Vitest == <<"v","i","t","e","s","t">>

Passed == <<"p","a","s","s","e","d">>
Failed == <<"f","a","i","l","e","d">>
Skipped == <<"s","k","i","p","p","e","d">>
Pending == <<"p","e","n","d","i","n","g">>
Other == <<"o","t","h","e","r">>

\* CtrfTestState
CtrfStates == {Passed, Failed, Skipped, Pending, Other}

\* the property of the summary that counts a CTRF state
CounterOf(s) ==
    CASE s = Passed -> "passed"
      [] s = Failed -> "failed"
      [] s = Skipped -> "skipped"
      [] s = Pending -> "pending"
      [] s = Other -> "other"

EnvFields ==
    {"appName", "appVersion", "osPlatform", "osRelease", "osVersion",
     "buildName", "buildNumber", "buildUrl", "repositoryName",
     "repositoryUrl", "branchName", "testEnvironment"}

-----------------------------------------------------------------------------
(* Characters, as the regular expression of parseStackTrace classes them *)

\* the character at position i of s, or "" past its end
At(s, i) == IF i >= 1 /\ i <= Len(s) THEN s[i] ELSE ""

\* \s
IsSpace(c) == c \in {" ", "\t", "\n", "\r", "\f"}

\* \S
IsNonSpace(c) == c # "" /\ ~IsSpace(c)

\* \d
IsDigit(c) == c \in {"0", "1", "2", "3", "4", "5", "6", "7", "8", "9"}

\* [^\\/]
IsNotSlash(c) == c # "" /\ c \notin {"\\", "/"}

\* . (no line terminator)
IsDot(c) == c # "" /\ c \notin {"\n", "\r"}

\* the i flag: letters compare without case
Lower(c) ==
    CASE c = "A" -> "a" [] c = "B" -> "b" [] c = "C" -> "c" [] c = "D" -> "d"
      [] c = "E" -> "e" [] c = "F" -> "f" [] c = "G" -> "g" [] c = "H" -> "h"
      [] c = "I" -> "i" [] c = "J" -> "j" [] c = "K" -> "k" [] c = "L" -> "l"
      [] c = "M" -> "m" [] c = "N" -> "n" [] c = "O" -> "o" [] c = "P" -> "p"
      [] c = "Q" -> "q" [] c = "R" -> "r" [] c = "S" -> "s" [] c = "T" -> "t"
      [] c = "U" -> "u" [] c = "V" -> "v" [] c = "W" -> "w" [] c = "X" -> "x"
      [] c = "Y" -> "y" [] c = "Z" -> "z" [] OTHER -> c

\* the literal lit stands at position i of s, letters compared without case
LiteralAt(s, i, lit) ==
    \A k \in 1..Len(lit) : Lower(At(s, i + k - 1)) = Lower(lit[k])

DigitValue(c) ==
    CASE c = "0" -> 0 [] c = "1" -> 1 [] c = "2" -> 2 [] c = "3" -> 3
      [] c = "4" -> 4 [] c = "5" -> 5 [] c = "6" -> 6 [] c = "7" -> 7
      [] c = "8" -> 8 [] c = "9" -> 9

RECURSIVE ToNumber(_)
\* unary + on a string of decimal digits
ToNumber(digits) ==
    IF digits = <<>> THEN 0
    ELSE 10 * ToNumber(SubSeq(digits, 1, Len(digits) - 1))
           + DigitValue(digits[Len(digits)])

RECURSIVE RunLength(_, _, _)
\* the length of the longest run of characters of a class that starts at i;
\* class is 1 for \s, 2 for \d, 3 for [^\\/], 4 for \S
InClass(class, c) ==
    CASE class = 1 -> IsSpace(c)
      [] class = 2 -> IsDigit(c)
      [] class = 3 -> IsNotSlash(c)
      [] class = 4 -> IsNonSpace(c)
RunLength(s, i, class) ==
    IF InClass(class, At(s, i)) THEN 1 + RunLength(s, i + 1, class) ELSE 0

RECURSIVE Split(_, _)
\* String.prototype.split on a one-character separator
Split(s, sep) ==
    IF \E i \in 1..Len(s) : s[i] = sep
    THEN LET i == CHOOSE i \in 1..Len(s) :
                      s[i] = sep /\ \A j \in 1..(i - 1) : s[j] # sep
         IN  <<SubSeq(s, 1, i - 1)>> \o Split(SubSeq(s, i + 1, Len(s)), sep)
    ELSE <<s>>

-----------------------------------------------------------------------------
(* parseStackTrace: nodeRe, one line at a time                              *)
(*   ^\s*at (?:((?:\[object object\])?[^\\/]+(?: \[as \S+\])?) )?           *)
(*   \(?(.*?):(\d+)(?::(\d+))?\)?\s*$       with the i flag                 *)
(* The matcher tries the alternatives in the order a backtracking engine    *)
(* does and keeps the first that matches the whole line.                    *)

Null == <<"null">>
NoMatch == [file |-> Null, digits |-> <<>>, ok |-> FALSE]

\* (?::(\d+))?\)?\s*$ from position q: the column, the closing parenthesis
\* and trailing white space up to the end of the line
RestMatches(s, q) ==
    LET q1 == IF At(s, q) = ":" /\ IsDigit(At(s, q + 1))
              THEN q + 1 + RunLength(s, q + 1, 2) ELSE q
        q2 == IF At(s, q1) = ")" THEN q1 + 1 ELSE q1
    IN  \A j \in q2..Len(s) : IsSpace(s[j])

\* (.*?):(\d+) and the rest, the file starting at j: the lengths the lazy
\* file group can take
FileLengths(s, j) ==
    {k \in 0..(Len(s) - j) :
        /\ \A m \in j..(j + k - 1) : IsDot(s[m])
        /\ At(s, j + k) = ":"
        /\ IsDigit(At(s, j + k + 1))
        /\ RestMatches(s, j + k + 1 + RunLength(s, j + k + 1, 2))}

\* \(?(.*?):(\d+)(?::(\d+))?\)?\s*$ from position i
MatchTail(s, i) ==
    LET j == IF At(s, i) = "(" THEN i + 1 ELSE i
        ks == FileLengths(s, j)
    IN  IF ks = {} THEN NoMatch
        ELSE LET k == CHOOSE k \in ks : \A k2 \in ks : k <= k2
                 d == RunLength(s, j + k + 1, 2)
             IN  [file |-> SubSeq(s, j, j + k - 1),
                  digits |-> SubSeq(s, j + k + 1, j + k + d),
                  ok |-> TRUE]

RECURSIVE AsSuffixStarts(_, _, _)
\* (?: \[as \S+\])? taken, after a name that ends at e: the positions where
\* the rest of the pattern starts, \S+ longest first (m characters)
AsSuffixStarts(s, e, m) ==
    IF m < 1 \/ ~LiteralAt(s, e + 1, <<" ", "[", "a", "s", " ">>) THEN <<>>
    ELSE (IF At(s, e + 6 + m) = "]" /\ At(s, e + 7 + m) = " "
          THEN <<e + 8 + m>> ELSE <<>>)
         \o AsSuffixStarts(s, e, m - 1)

RECURSIVE NameStarts(_, _, _)
\* [^\\/]+ from position from, longest first (len characters), each length
\* with the [as ...] suffix and then without it, and the space that follows
NameStarts(s, from, len) ==
    IF len < 1 THEN <<>>
    ELSE LET e == from + len - 1
         IN  AsSuffixStarts(s, e, RunLength(s, e + 6, 4))
             \o (IF At(s, e + 1) = " " THEN <<e + 2>> ELSE <<>>)
             \o NameStarts(s, from, len - 1)

ObjectObject ==
    <<"[","o","b","j","e","c","t"," ","o","b","j","e","c","t","]">>

\* the positions where \(?(.*?):... may start, in the order tried: with the
\* name group (with and without [object object]), then without it
TailStarts(s, start) ==
    (IF LiteralAt(s, start, ObjectObject)
     THEN NameStarts(s, start + Len(ObjectObject),
                     RunLength(s, start + Len(ObjectObject), 3))
     ELSE <<>>)
    \o NameStarts(s, start, RunLength(s, start, 3))
    \o <<start>>

\* nodeRe.exec(line): the file and line-number groups of the first match
MatchLine(line) ==
    LET p == 1 + RunLength(line, 1, 1)
        starts == TailStarts(line, p + 3)
        hits == {n \in 1..Len(starts) : MatchTail(line, starts[n]).ok}
    IN  IF ~LiteralAt(line, p, <<"a", "t", " ">>) \/ hits = {} THEN NoMatch
        ELSE MatchTail(line, starts[CHOOSE n \in hits : \A n2 \in hits : n <= n2])

RECURSIVE FramesOf(_)
\* lines.reduce(...): a frame for every line that matches, in line order
FramesOf(lines) ==
    IF lines = <<>> THEN <<>>
    ELSE LET parts == MatchLine(Head(lines))
         IN  (IF parts.ok
              THEN <<[file |-> IF parts.file = <<>> THEN Null ELSE parts.file,
                      lineNumber |-> ToNumber(parts.digits)]>>
              ELSE <<>>)
             \o FramesOf(Tail(lines))

parseStackTrace(stackString) == FramesOf(Split(stackString, NL))

-----------------------------------------------------------------------------
(* path.resolve of node:path, POSIX flavour: an absolute path is kept, a    *)
(* relative one is taken from process.cwd(); then "." and empty segments    *)
(* are dropped and ".." removes the segment before it.                      *)

IsAbsolute(p) == At(p, 1) = "/"

RECURSIVE NormalizeSegments(_, _)
NormalizeSegments(segs, acc) ==
    IF segs = <<>> THEN acc
    ELSE LET seg == Head(segs)
             acc2 == IF seg = <<>> \/ seg = <<".">> THEN acc
                     ELSE IF seg = <<".", ".">>
                          THEN SubSeq(acc, 1, Len(acc) - 1)
                          ELSE Append(acc, seg)
         IN  NormalizeSegments(Tail(segs), acc2)

\* path.resolve(p) raises when it needs process.cwd() and that raises
ResolveRaises(p, dir) == ~IsAbsolute(p) /\ dir = Undefined

PathResolve(p, dir) ==
    LET full == IF IsAbsolute(p) THEN p ELSE dir \o <<"/">> \o p
    IN  <<"/">> \o Join(NormalizeSegments(Split(full, "/"), <<>>), <<"/">>)

\* path.join(dir, file), for a directory and a file name
\* path.join giving back the file name alone
JoinWithoutDir(dir, file) == file

PathJoin(dir, file) ==
    (IF IsAbsolute(dir) THEN <<"/">> ELSE <<>>)
    \o Join(NormalizeSegments(Split(dir \o <<"/">> \o file, "/"), <<>>),
            <<"/">>)

-----------------------------------------------------------------------------
(* The failure diagnostics extractor *)

isTestFailed(result) == Get(result, "state") = Failed

RECURSIVE FindTestFrame(_, _, _)
\* stackFrames.find(...): <<"found", lineNumber>>, <<"none">>, or
\* <<"raised">> when a path.resolve inside the callback raises
FindTestFrame(stackFrames, testFilePath, dir) ==
    IF stackFrames = <<>> THEN [kind |-> "none", lineNumber |-> 0]
    ELSE LET frame == Head(stackFrames)
         IN  IF frame.file = Null
             THEN FindTestFrame(Tail(stackFrames), testFilePath, dir)
             ELSE IF ResolveRaises(frame.file, dir)
                     \/ ResolveRaises(testFilePath, dir)
                  THEN [kind |-> "raised", lineNumber |-> 0]
                  ELSE IF PathResolve(frame.file, dir)
                            = PathResolve(testFilePath, dir)
                       THEN [kind |-> "found", lineNumber |-> frame.lineNumber]
                       ELSE FindTestFrame(Tail(stackFrames), testFilePath, dir)

\* extractLineNumber taking the first parsed frame, whatever its file
FirstFrameLineNumber(trace, testFilePath, dir) ==
    LET stackFrames == parseStackTrace(trace)
    IN  IF stackFrames = <<>> THEN <<>> ELSE <<stackFrames[1].lineNumber>>

\* the line number, as the sequence <<n>>, or <<>> for undefined
extractLineNumber(trace, testFilePath, dir) ==
    LET testFrame == FindTestFrame(parseStackTrace(trace), testFilePath, dir)
    IN  IF testFrame.kind = "found" THEN <<testFrame.lineNumber>> ELSE <<>>

RECURSIVE MapProperty(_, _)
\* errors.map((error) => error[key])
MapProperty(errors, key) ==
    IF errors = <<>> THEN <<>>
    ELSE <<Get(Head(errors), key)>> \o MapProperty(Tail(errors), key)

\* .filter(Boolean) left out
KeepAll(arr) == arr

RECURSIVE FilterBoolean(_)
\* .filter(Boolean) on strings: undefined and "" are dropped
FilterBoolean(arr) ==
    IF arr = <<>> THEN <<>>
    ELSE (IF Head(arr) = Undefined \/ Head(arr) = <<>> THEN <<>>
          ELSE <<Head(arr)>>)
         \o FilterBoolean(Tail(arr))

\* a failed result without an errors array: errors.map raises a TypeError
ExtractRaises(testCase) ==
    /\ isTestFailed(testCase.result)
    /\ "errors" \notin DOMAIN testCase.result

\* the object extractFailureDetails builds for a failed result
FailedDetails(testCase, dir) ==
    LET errors == testCase.result.errors
        message == Join(MapProperty(errors, "message"), <<NL>>)
        trace == Join(FilterBoolean(MapProperty(errors, "stack")), <<NL, NL>>)
        moduleId == testCase.module.moduleId
        lineNumber ==
            IF trace # <<>> /\ moduleId # Undefined /\ moduleId # <<>>
            THEN extractLineNumber(trace, moduleId, dir)
            ELSE <<>>
    IN  [k \in {"message", "trace"}
               \cup (IF lineNumber # <<>> THEN {"line"} ELSE {}) |->
            CASE k = "message" -> message
              [] k = "trace" -> trace
              [] k = "line" -> lineNumber[1]]

\* extractFailureDetails giving empty strings for a result that did not fail
EmptyStringDetails(testCase, dir) ==
    IF isTestFailed(testCase.result) THEN FailedDetails(testCase, dir)
    ELSE [message |-> <<>>, trace |-> <<>>]

\* the object extractFailureDetails returns
extractFailureDetails(testCase, dir) ==
    IF isTestFailed(testCase.result) THEN FailedDetails(testCase, dir)
    ELSE <<>>

-----------------------------------------------------------------------------
(* The report accumulator: helpers *)

\* mapStatus without its 'pending' case
MapStatusWithoutPending(vitestResult) ==
    LET state == Get(vitestResult, "state")
    IN  CASE state = Passed -> Passed
          [] state = Failed -> Failed
          [] state = Skipped -> Skipped
          [] OTHER -> Other

mapStatus(vitestResult) ==
    LET state == Get(vitestResult, "state")
    IN  CASE state = Passed -> Passed
          [] state = Failed -> Failed
          [] state = Skipped -> Skipped
          [] state = Pending -> Pending
          [] OTHER -> Other

\* the minimal flag ignored
DetailsAlways(config) == TRUE

\* this.reporterConfigOptions.minimal === false
DetailsWanted(config) == config.minimal = FALSE

\* the properties updateCtrfTestResultsFromTestResult sets when minimal is
\* false; line only when the failure details carry one
DetailProperties(failureDetails) ==
    {"message", "trace", "rawStatus", "type", "filePath", "retries", "flaky",
     "suite"} \cup (DOMAIN failureDetails \cap {"line"})

\* the CtrfTest object updateCtrfTestResultsFromTestResult pushes, for the
\* failure details extractFailureDetails returned
TestObject(testCase, config, failureDetails) ==
    [k \in {"name", "duration", "status"}
           \cup (IF DetailsWanted(config)
                 THEN DetailProperties(failureDetails) ELSE {}) |->
        CASE k = "name" -> testCase.fullName
          [] k = "duration" ->
                IF testCase.diagnostic = <<>> THEN 0
                ELSE testCase.diagnostic[1].duration
          [] k = "status" -> mapStatus(testCase.result)
          [] k = "message" -> Get(failureDetails, "message")
          [] k = "trace" -> Get(failureDetails, "trace")
          [] k = "line" -> failureDetails.line
          [] k = "rawStatus" -> Get(testCase.result, "state")
          [] k = "type" -> Coalesce(config.testType, Unit)
          [] k = "filePath" -> testCase.module.moduleId
          [] k = "retries" ->
                IF testCase.diagnostic = <<>> THEN 0
                ELSE testCase.diagnostic[1].retryCount
          [] k = "flaky" ->
                IF testCase.diagnostic = <<>> THEN FALSE
                ELSE testCase.diagnostic[1].flaky
          [] k = "suite" -> testCase.fullName]

BuildTest(testCase, config, dir) ==
    TestObject(testCase, config, extractFailureDetails(testCase, dir))

\* updateCtrfTestResultsFromTestResult: whether it raises
UpdateResultsRaises(testCase, config) ==
    DetailsWanted(config) /\ ExtractRaises(testCase)

\* tests.unshift(test) in place of tests.push(test)
UnshiftTest(report, testCase, config, dir) ==
    [report EXCEPT !.results.tests =
                       <<BuildTest(testCase, config, dir)>> \o @]

updateCtrfTestResultsFromTestResult(report, testCase, config, dir) ==
    [report EXCEPT !.results.tests =
                       Append(@, BuildTest(testCase, config, dir))]

\* updateTotalsFromTestResult without summary.tests++
CountStatusOnly(report, testCase) ==
    LET ctrfStatus == CounterOf(mapStatus(testCase.result))
    IN  [report EXCEPT !.results.summary[ctrfStatus] = @ + 1]

\* updateTotalsFromTestResult counting every test as passed
CountAllAsPassed(report, testCase) ==
    [report EXCEPT !.results.summary.passed = @ + 1,
                   !.results.summary.tests = @ + 1]

\* updateTotalsFromTestResult stamping summary.stop as well
CountAndStamp(report, testCase) ==
    LET ctrfStatus == CounterOf(mapStatus(testCase.result))
    IN  [report EXCEPT !.results.summary[ctrfStatus] = @ + 1,
                       !.results.summary.tests = @ + 1,
                       !.results.summary.stop = @ + 1]

updateTotalsFromTestResult(report, testCase) ==
    LET ctrfStatus == CounterOf(mapStatus(testCase.result))
    IN  [report EXCEPT !.results.summary[ctrfStatus] = @ + 1,
                       !.results.summary.tests = @ + 1]

\* setFilename appending the suffix whatever the name ends in
AppendJsonAlways(name) == name \o DotJson

setFilename(name) ==
    IF EndsWith(name, DotJson) THEN name ELSE name \o DotJson

setEnvironmentDetails(environment, config) ==
    LET set == {f \in EnvFields : config[f] # Undefined}
    IN  [f \in DOMAIN environment \cup set |->
            IF f \in set THEN config[f] ELSE environment[f]]

\* the environment attached whether or not it has a field
AlwaysHasEnvironment(environment) == TRUE

hasEnvironmentDetails(environment) == Cardinality(DOMAIN environment) > 0

\* the properties of a test record whose value is a string or undefined
StringProperties ==
    {"name", "status", "message", "trace", "rawStatus", "type", "filePath",
     "suite"}

\* JSON.stringify leaves out the properties whose value is undefined
DropUndefined(obj) ==
    LET keep == {k \in DOMAIN obj :
                    k \notin StringProperties \/ obj[k] # Undefined}
    IN  [k \in keep |-> obj[k]]

\* the document JSON.stringify(data, null, 2) writes down
JSONstringify(data) ==
    [data EXCEPT !.results.tests = [i \in DOMAIN @ |-> DropUndefined(@[i])]]

-----------------------------------------------------------------------------
(* Construction *)

\* the options the model constructs the reporter with
MinimalChoices == {"absent", "true"}
EnvChoices == SUBSET {"appName", "testEnvironment"}
EnvValue(f) == IF f = "appName" THEN <<"x">> ELSE <<>>

MakeOptions(outputFile, minimal, testType, env) ==
    (IF outputFile # Undefined THEN [outputFile |-> outputFile] ELSE <<>>)
    @@ (IF minimal # "absent" THEN [minimal |-> (minimal = "true")] ELSE <<>>)
    @@ (IF testType # Undefined THEN [testType |-> testType] ELSE <<>>)
    @@ [f \in env |-> EnvValue(f)]

\* outputFile and testType are given when appName is, and only then
OptionChoices ==
    {MakeOptions(IF "appName" \in e THEN <<"r">> ELSE Undefined, m,
                 IF "appName" \in e THEN <<"e", "2", "e">> ELSE Undefined, e) :
        m \in MinimalChoices, e \in EnvChoices}

\* the constructor's this.reporterConfigOptions
ResolveOptions(options) ==
    [outputFile |-> Coalesce(Get(options, "outputFile"), defaultOutputFile),
     outputDir |-> Coalesce(Get(options, "outputDir"), defaultOutputDir),
     minimal |-> IF "minimal" \in DOMAIN options THEN options.minimal
                 ELSE FALSE,
     testType |-> Coalesce(Get(options, "testType"), Unit)]
    @@ [f \in EnvFields |-> Coalesce(Get(options, f), Undefined)]

\* the constructor's this.ctrfReport
EmptyReport ==
    [results |->
        [tool |-> [name |-> Vitest],
         summary |-> [tests |-> 0, passed |-> 0, failed |-> 0, pending |-> 0,
                      skipped |-> 0, other |-> 0, start |-> 0, stop |-> 0],
         tests |-> <<>>]]

\* the state the constructor leaves, for the options and working directory
Constructed(options, dir) ==
    /\ reporterOptions = options
    /\ reporterConfigOptions = ResolveOptions(options)
    /\ ctrfReport = EmptyReport
    /\ ctrfEnvironment = <<>>
    /\ filename = setFilename(ResolveOptions(options).outputFile)
    /\ now = 0
    /\ cwd = dir
    /\ fs = [dirs |-> {ResolveOptions(options).outputDir}, files |-> <<>>,
             writes |-> <<>>]
    /\ console = <<>>
    /\ calls = <<>>
    /\ completed = <<>>
    /\ thrown = "none"

WorkDir == <<"/", "t">>

Init == \E options \in OptionChoices : Constructed(options, WorkDir)

-----------------------------------------------------------------------------
(* The lifecycle calls of the host *)

Count(kind) == Cardinality({i \in DOMAIN calls : calls[i] = kind})

\* onTestRunStart beginning the run with a fresh summary and no tests
onTestRunStartResetting ==
    /\ Len(calls) < MaxCalls
    /\ \E t \in now..MaxClock :
        /\ now' = t
        /\ ctrfReport' = [EmptyReport EXCEPT !.results.summary.start = t]
    /\ calls' = Append(calls, "start")
    /\ thrown' = "none"
    /\ UNCHANGED <<reporterOptions, reporterConfigOptions, ctrfEnvironment,
                   filename, cwd, fs, console, completed>>

onTestRunStart ==
    /\ Len(calls) < MaxCalls
    /\ \E t \in now..MaxClock :
        LET environment ==
                setEnvironmentDetails(ctrfEnvironment, reporterConfigOptions)
            started == [ctrfReport EXCEPT !.results.summary.start = t]
        IN  /\ now' = t
            /\ ctrfEnvironment' = environment
            /\ ctrfReport' =
                 IF hasEnvironmentDetails(environment)
                 THEN [started EXCEPT !.results =
                          [k \in DOMAIN @ \cup {"environment"} |->
                              IF k = "environment" THEN environment ELSE @[k]]]
                 ELSE started
    /\ calls' = Append(calls, "start")
    /\ thrown' = "none"
    /\ UNCHANGED <<reporterOptions, reporterConfigOptions, filename, cwd, fs,
                   console, completed>>

onTestCaseResult(testCase) ==
    /\ Len(calls) < MaxCalls
    /\ completed' = Append(completed, testCase)
    /\ calls' = Append(calls, "test")
    /\ IF UpdateResultsRaises(testCase, reporterConfigOptions)
       THEN /\ thrown' = "TypeError"
            /\ UNCHANGED ctrfReport
       ELSE /\ thrown' = "none"
            /\ ctrfReport' =
                 updateTotalsFromTestResult(
                     updateCtrfTestResultsFromTestResult(
                         ctrfReport, testCase, reporterConfigOptions, cwd),
                     testCase)
    /\ UNCHANGED <<reporterOptions, reporterConfigOptions, ctrfEnvironment,
                   filename, now, cwd, fs, console>>

\* what fs.writeFileSync may do: succeed, or raise one of these
WriteOutcomes == {"ok", "EACCES"}

\* what fs.writeFileSync may do for a file in dir: where dir is not a
\* directory (the constructor found a regular file of that name) it raises
WriteOutcomesIn(dir) ==
    IF dir \in fs.dirs THEN WriteOutcomes ELSE {"ENOTDIR"}

\* writeReportToFile printing the confirmation in its catch block too
ConfirmAnyway(data, outcome) ==
    /\ fs' = [fs EXCEPT !.writes =
                 Append(@, [path |-> PathJoin(reporterConfigOptions.outputDir,
                                              filename),
                            ok |-> outcome = "ok"])]
    /\ console' = Append(console,
           [stream |-> "log", name |-> reporterName,
            outputDir |-> reporterConfigOptions.outputDir,
            filename |-> filename, error |-> "none"])

\* writeReportToFile(data), the write ending as outcome says
writeReportToFile(data, outcome) ==
    LET filePath == PathJoin(reporterConfigOptions.outputDir, filename)
        str == JSONstringify(data)
    IN  IF outcome = "ok"
        THEN /\ fs' = [fs EXCEPT
                          !.files = [q \in DOMAIN @ \cup {filePath} |->
                                        IF q = filePath THEN str ELSE @[q]],
                          !.writes = Append(@, [path |-> filePath,
                                                ok |-> TRUE])]
             /\ console' = Append(console,
                    [stream |-> "log", name |-> reporterName,
                     outputDir |-> reporterConfigOptions.outputDir,
                     filename |-> filename, error |-> "none"])
        ELSE /\ fs' = [fs EXCEPT !.writes = Append(@, [path |-> filePath,
                                                           ok |-> FALSE])]
             /\ console' = Append(console,
                    [stream |-> "error", name |-> <<>>, outputDir |-> <<>>,
                     filename |-> <<>>, error |-> outcome])

\* onTestRunEnd writing the report without reading the clock
onTestRunEndKeepingStop ==
    /\ Len(calls) < MaxCalls
    /\ \E outcome \in WriteOutcomesIn(reporterConfigOptions.outputDir) :
        /\ ctrfReport' = ctrfReport
        /\ writeReportToFile(ctrfReport', outcome)
    /\ calls' = Append(calls, "end")
    /\ thrown' = "none"
    /\ UNCHANGED <<reporterOptions, reporterConfigOptions, ctrfEnvironment,
                   filename, now, cwd, completed>>

onTestRunEnd ==
    /\ Len(calls) < MaxCalls
    /\ \E t \in now..MaxClock,
          outcome \in WriteOutcomesIn(reporterConfigOptions.outputDir) :
        /\ now' = t
        /\ ctrfReport' = [ctrfReport EXCEPT !.results.summary.stop = t]
        /\ writeReportToFile(ctrfReport', outcome)
    /\ calls' = Append(calls, "end")
    /\ thrown' = "none"
    /\ UNCHANGED <<reporterOptions, reporterConfigOptions, ctrfEnvironment,
                   filename, cwd, completed>>

-----------------------------------------------------------------------------
(* The test cases the host reports.  An error carries its message, its      *)
(* stack text (absent when the error has none) and, as vitest's TestError   *)
(* does, the frames the stack text was printed from (stacks), which the     *)
(* reporter never reads.                                                    *)

RECURSIVE ToDigits(_)
ToDigits(n) ==
    LET d == <<"0", "1", "2", "3", "4", "5", "6", "7", "8", "9">>[(n % 10) + 1]
    IN  IF n < 10 THEN <<d>> ELSE ToDigits(n \div 10) \o <<d>>

\* "    at method (file:line:column)", or "    at file:line:column"
FormatFrame(frame) ==
    LET location == frame.file \o <<":">> \o ToDigits(frame.line)
                    \o <<":">> \o ToDigits(frame.column)
    IN  <<" ", " ", " ", " ", "a", "t", " ">>
        \o (IF frame.method # <<>>
            THEN frame.method \o <<" ", "(">> \o location \o <<")">>
            ELSE location)

RECURSIVE FormatFrames(_)
FormatFrames(frames) ==
    IF frames = <<>> THEN <<>>
    ELSE <<NL>> \o FormatFrame(Head(frames)) \o FormatFrames(Tail(frames))

\* error.stack: "Error: message" and a line for each frame
FormatStack(message, frames) ==
    <<"E", "r", "r", "o", "r", ":", " ">> \o message \o FormatFrames(frames)

ErrorWithStack(message, frames) ==
    [message |-> message, stack |-> FormatStack(message, frames),
     stacks |-> frames]

ErrorWithoutStack(message) == [message |-> message, stacks |-> <<>>]

OwnFile == <<"/", "t", "/", "f">>
OwnFileAlias == <<"/", "o", "/", ".", ".", "/", "t", "/", ".", "/", "f">>
OwnFileRelative == <<"f">>
OtherFile == <<"/", "o", "/", "g">>

FrameOwn == [method |-> <<"x">>, file |-> OwnFile, line |-> 42, column |-> 3]
FrameOther == [method |-> <<>>, file |-> OtherFile, line |-> 7, column |-> 1]
FrameAlias ==
    [method |-> <<"n", "e", "w", " ", "Y">>, file |-> OwnFileAlias,
     line |-> 10, column |-> 2]
FrameRelative ==
    [method |-> <<>>, file |-> OwnFileRelative, line |-> 3, column |-> 15]

MakeTestCase(fullName, diagnostic, result, moduleId) ==
    [fullName |-> fullName, diagnostic |-> diagnostic, result |-> result,
     module |-> [moduleId |-> moduleId]]

Diagnostic(duration, retryCount, flaky) ==
    <<[duration |-> duration, retryCount |-> retryCount, flaky |-> flaky]>>

\* the test cases of the lifecycle specification
TestCases ==
    { MakeTestCase(<<"p">>, Diagnostic(5, 0, FALSE),
                   [state |-> Passed], OwnFile),
      MakeTestCase(<<"f">>, Diagnostic(3, 1, TRUE),
                   [state |-> Failed,
                    errors |-> <<ErrorWithStack(<<"A">>,
                                                <<FrameOther, FrameOwn>>),
                                 ErrorWithoutStack(<<"B">>)>>],
                   OwnFile),
      MakeTestCase(<<"s">>, <<>>, [state |-> Skipped], OwnFile),
      MakeTestCase(<<"w">>, <<>>, [state |-> Pending], OwnFile),
      MakeTestCase(<<"q">>, <<>>, [state |-> <<"q", "u", "e", "u", "e", "d">>],
                   OwnFile) }

Next ==
    \/ onTestRunStart
    \/ \E testCase \in TestCases : onTestCaseResult(testCase)
    \/ onTestRunEnd

Spec == Init /\ [][Next]_vars

-----------------------------------------------------------------------------
(* The extractor on its own: one test case, drawn from a larger set, is     *)
(* reported to a reporter constructed with default options.                 *)

Messages == {<<"A">>, <<"B">>}

\* the frames of an error's stack, as the model draws them
StackChoices ==
    { <<>>, <<FrameOwn>>, <<FrameOther>>, <<FrameAlias>>, <<FrameRelative>>,
      <<FrameOther, FrameOwn>>, <<FrameOwn, FrameOther>>,
      <<FrameOther, FrameRelative>>, <<FrameRelative, FrameOwn>>,
      <<FrameOther, FrameAlias>>, <<FrameOther, FrameOther>> }

ErrorChoices ==
    {ErrorWithStack(m, frames) : m \in Messages, frames \in StackChoices}
    \cup {ErrorWithoutStack(m) : m \in Messages}
    \cup {[stacks |-> <<>>],
          [message |-> <<"A">>, stack |-> <<>>, stacks |-> <<>>]}

\* the sequences over S of length at most n
SeqsUpTo(S, n) == UNION {[1..k -> S] : k \in 0..n}

NativeStates ==
    {Passed, Failed, Skipped, Pending, <<"q", "u", "e", "u", "e", "d">>,
     <<"F", "a", "i", "l", "e", "d">>, <<>>}

ModuleIds == {OwnFile, <<>>}

ExtractTestCases ==
    {MakeTestCase(<<"f">>, <<>>, [state |-> Failed, errors |-> errors], id) :
        errors \in SeqsUpTo(ErrorChoices, MaxErrors), id \in ModuleIds}
    \cup {MakeTestCase(<<"n">>, Diagnostic(1, 0, FALSE), [state |-> st],
                       OwnFile) : st \in NativeStates \ {Failed}}
    \cup {MakeTestCase(<<"n">>, <<>>,
                       [state |-> st,
                        errors |-> <<ErrorWithStack(<<"A">>, <<FrameOwn>>)>>],
                       OwnFile) : st \in NativeStates \ {Failed}}
    \cup {MakeTestCase(<<"u">>, <<>>, <<>>, OwnFile)}

WorkDirs == {WorkDir, <<"/", "o">>, Undefined}

InitExtract == \E dir \in WorkDirs : Constructed(<<>>, dir)

ExtractOne ==
    /\ completed = <<>>
    /\ \E testCase \in ExtractTestCases : onTestCaseResult(testCase)

SpecExtract == InitExtract /\ [][ExtractOne]_vars

-----------------------------------------------------------------------------
(* A host that breaks the TestResult type: a failed result with no errors   *)
(* array.                                                                   *)

MalformedTestCases ==
    {MakeTestCase(<<"m">>, <<>>, [state |-> Failed], OwnFile)}

NextMalformed ==
    \/ Next
    \/ \E testCase \in MalformedTestCases : onTestCaseResult(testCase)

SpecMalformed == Init /\ [][NextMalformed]_vars

-----------------------------------------------------------------------------
(* The constructor as a step: the host holds the options and the file       *)
(* system is in some state; new GenerateCtrfReport(options) either returns   *)
(* the reporter or lets the error of fs.mkdirSync escape.  Before the call   *)
(* the fields of the reporter hold no value.                                 *)

\* fs.existsSync: true of a directory and of a regular file alike
existsSync(p) == p \in fs.dirs \/ p \in DOMAIN fs.files

\* the directories above p
Ancestors(p) ==
    {SubSeq(p, 1, i - 1) : i \in {j \in 2..Len(p) : p[j] = "/"}}

\* what fs.mkdirSync(p, { recursive: true }) may do: it raises where a
\* regular file stands in the way, and otherwise succeeds or is refused
mkdirSyncOutcomes(p) ==
    IF \E a \in Ancestors(p) \cup {p} : a \in DOMAIN fs.files
    THEN {"ENOTDIR"}
    ELSE {"ok", "EACCES"}

\* the constructor's test of lines 86-90: whether it leaves fs.mkdirSync out
SkipsMkdir(p) == existsSync(p)

constructor ==
    /\ calls = <<>>
    /\ calls' = <<"new">>
    /\ LET config == ResolveOptions(reporterOptions)
           dir == Coalesce(config.outputDir, defaultOutputDir)
       IN  \E outcome \in (IF SkipsMkdir(dir) THEN {"skipped"}
                           ELSE mkdirSyncOutcomes(dir)) :
              IF outcome \in {"skipped", "ok"}
              THEN /\ reporterConfigOptions' = config
                   /\ ctrfReport' = EmptyReport
                   /\ ctrfEnvironment' = <<>>
                   /\ filename' = setFilename(config.outputFile)
                   /\ fs' = IF outcome = "ok"
                            THEN [fs EXCEPT
                                     !.dirs = @ \cup Ancestors(dir) \cup {dir}]
                            ELSE fs
                   /\ thrown' = "none"
              ELSE /\ thrown' = outcome
                   /\ UNCHANGED <<reporterConfigOptions, ctrfReport,
                                  ctrfEnvironment, filename, fs>>
    /\ UNCHANGED <<reporterOptions, now, cwd, console, completed>>

\* the constructor has returned the reporter
Returned == calls # <<>> /\ ~(Len(calls) = 1 /\ thrown # "none")

\* the output file names the model constructs the reporter with
FileNames ==
    { Undefined, <<>>, <<"r">>, <<"r", ".", "j", "s", "o", "n">>,
      <<".", "j", "s", "o", "n">>, <<"j", "s", "o", "n">>,
      <<"r", ".", "j", "s", "o">>, <<"r", ".", "J", "S", "O", "N">>,
      <<"r", ".", "j", "s", "o", "n", ".">>,
      <<"r", ".", "j", "s", "o", "n", ".", "j", "s", "o", "n">> }

NestedDir == <<"a", "/", "b">>

DirNames == {Undefined, NestedDir}

ConstructOptions ==
    {(IF f # Undefined THEN [outputFile |-> f] ELSE <<>>)
     @@ (IF d # Undefined THEN [outputDir |-> d] ELSE <<>>) :
        f \in FileNames, d \in DirNames}

\* a report an earlier run left in the default place
EarlierReportPath == PathJoin(defaultOutputDir, defaultOutputFile)

\* the states of the file system the constructor may find
FsChoices ==
    { [dirs |-> {}, files |-> <<>>, writes |-> <<>>],
      [dirs |-> {defaultOutputDir},
       files |-> [q \in {EarlierReportPath} |-> JSONstringify(EmptyReport)],
       writes |-> <<>>],
      [dirs |-> {},
       files |-> [q \in {defaultOutputDir} |-> JSONstringify(EmptyReport)],
       writes |-> <<>>],
      [dirs |-> {<<"a">>}, files |-> <<>>, writes |-> <<>>],
      [dirs |-> {<<"a">>, NestedDir}, files |-> <<>>, writes |-> <<>>],
      [dirs |-> {},
       files |-> [q \in {<<"a">>} |-> JSONstringify(EmptyReport)],
       writes |-> <<>>] }

InitConstruct ==
    \E options \in ConstructOptions, before \in FsChoices :
        /\ reporterOptions = options
        /\ reporterConfigOptions = Undefined
        /\ ctrfReport = Undefined
        /\ ctrfEnvironment = Undefined
        /\ filename = Undefined
        /\ now = 0
        /\ cwd = WorkDir
        /\ fs = before
        /\ console = <<>>
        /\ calls = <<>>
        /\ completed = <<>>
        /\ thrown = "none"

\* the test cases reported to the reporter the constructor returned
ConstructTestCases ==
    {testCase \in TestCases : testCase.fullName \in {<<"p">>, <<"f">>}}

NextConstruct ==
    \/ constructor
    \/ Returned /\ onTestRunStart
    \/ Returned /\ \E testCase \in ConstructTestCases :
                       onTestCaseResult(testCase)
    \/ Returned /\ onTestRunEnd

SpecConstruct == InitConstruct /\ [][NextConstruct]_vars

-----------------------------------------------------------------------------
(* Properties *)

Summary == ctrfReport.results.summary
Tests == ctrfReport.results.tests

\* the documents written to disk
WrittenDocuments == {fs.files[q] : q \in DOMAIN fs.files}

\* the in-memory document and the written ones
Documents == {ctrfReport} \cup WrittenDocuments

MinimalEnabled == "minimal" \in DOMAIN reporterOptions /\ reporterOptions.minimal

NativeState(testCase) == Get(testCase.result, "state")

\* the host kept to its protocol: one run start, the test cases, one run end
HostRun ==
    /\ Len(calls) >= 2
    /\ calls[1] = "start"
    /\ calls[Len(calls)] = "end"
    /\ \A i \in 2..(Len(calls) - 1) : calls[i] = "test"

\* C1: after a run of N test-case completions between run start and run end,
\* summary.tests is N, the tests sequence has N records, and the five status
\* counters add up to summary.tests.
C1_RunTotals ==
    HostRun =>
        /\ Summary.tests = Len(completed)
        /\ Len(Tests) = Len(completed)
        /\ Summary.passed + Summary.failed + Summary.pending + Summary.skipped
             + Summary.other = Summary.tests

C1_Witness ==
    /\ HostRun
    /\ Len(completed) = 2
    /\ Summary.failed = 1
    /\ Summary.other = 1

\* C2: every call leaves the records already in tests as they are and in
\* place, a test-case completion appends exactly one record and no other call
\* appends any, and the i-th record is that of the i-th completed test case.
C2_AppendOnly ==
    /\ [](/\ Len(Tests) = Len(completed)
          /\ \A i \in 1..Len(Tests) : Tests[i].name = completed[i].fullName)
    /\ [][/\ Len(Tests') >= Len(Tests)
          /\ SubSeq(Tests', 1, Len(Tests)) = Tests
          /\ Len(Tests') = Len(Tests) + (Len(completed') - Len(completed))]_vars

C2_Witness ==
    /\ Len(Tests) = 2
    /\ Tests[1].name = <<"f">>
    /\ Tests[2].name = <<"p">>
    /\ Len(calls) = 4
    /\ calls[3] = "start"
    /\ calls[4] = "end"

\* C3: every native state, an absent one included, gets exactly one of the
\* five CTRF states: passed, failed, skipped and pending themselves, anything
\* else other; and no call raises.
C3_StatusMapping ==
    /\ thrown = "none"
    /\ Len(Tests) = Len(completed)
    /\ \A i \in 1..Len(Tests) :
        LET native == NativeState(completed[i])
        IN  /\ Tests[i].status \in CtrfStates
            /\ native \in {Passed, Failed, Skipped, Pending}
                  => Tests[i].status = native
            /\ native \notin {Passed, Failed, Skipped, Pending}
                  => Tests[i].status = Other

C3_Witness ==
    /\ Len(Tests) = 1
    /\ NativeState(completed[1]) = Undefined
    /\ Tests[1].status = Other
    /\ Summary.other = 1

\* C4: every test-case completion appends one record and counts one test, and
\* none is dropped, even when its failure details cannot be extracted.
C4_NeverDropped ==
    /\ Len(Tests) = Len(completed)
    /\ Summary.tests = Len(completed)
    /\ thrown = "none"

\* C5: with minimal enabled, every record of the document, in memory and as
\* written, has the properties name, duration and status and no other.
C5_MinimalRecords ==
    MinimalEnabled =>
        \A doc \in Documents : \A i \in 1..Len(doc.results.tests) :
            DOMAIN doc.results.tests[i] = {"name", "duration", "status"}

C5_Witness ==
    /\ MinimalEnabled
    /\ WrittenDocuments # {}
    /\ \E doc \in WrittenDocuments : \E i \in 1..Len(doc.results.tests) :
          doc.results.tests[i].status = Failed

\* C6, as claimed: without minimal, the record of a test that did not fail
\* has message and trace equal to the empty string.
C6_EmptyStrings ==
    ~MinimalEnabled =>
        \A i \in 1..Len(Tests) :
            NativeState(completed[i]) # Failed
                => /\ {"message", "trace"} \subseteq DOMAIN Tests[i]
                   /\ Tests[i].message = <<>>
                   /\ Tests[i].trace = <<>>

\* C6, amended: without minimal, the record of a test that did not fail has
\* message and trace set to undefined, and the written document has neither
\* property for it; the record of a failed test has both as strings.
C6_UndefinedWhenNotFailed ==
    ~MinimalEnabled =>
        /\ \A i \in 1..Len(Tests) :
              /\ {"message", "trace"} \subseteq DOMAIN Tests[i]
              /\ IF NativeState(completed[i]) # Failed
                 THEN Tests[i].message = Undefined /\ Tests[i].trace = Undefined
                 ELSE Tests[i].message # Undefined /\ Tests[i].trace # Undefined
        /\ \A doc \in WrittenDocuments : \A i \in 1..Len(doc.results.tests) :
              ({"message", "trace"} \subseteq DOMAIN doc.results.tests[i])
                  <=> NativeState(completed[i]) = Failed
        /\ \A doc \in WrittenDocuments : \A i \in 1..Len(doc.results.tests) :
              {"message", "trace"} \cap DOMAIN doc.results.tests[i] # {}
                  => NativeState(completed[i]) = Failed

C6_Witness ==
    /\ ~MinimalEnabled
    /\ \E doc \in WrittenDocuments : \E i \in 1..Len(doc.results.tests) :
          /\ NativeState(completed[i]) = Passed
          /\ "message" \notin DOMAIN doc.results.tests[i]
          /\ Tests[i].message = Undefined

\* the message text of an error, empty when it has none
MessageOf(error) == IF "message" \in DOMAIN error THEN error.message ELSE <<>>

HasStack(error) == "stack" \in DOMAIN error /\ error.stack # <<>>

RECURSIVE Glued(_, _, _)
\* the first n of strs, each but the first preceded by sep
Glued(strs, sep, n) ==
    IF n = 0 THEN <<>>
    ELSE IF n = 1 THEN strs[1]
         ELSE Glued(strs, sep, n - 1) \o sep \o strs[n]

ExpectedMessage(errors) ==
    Glued([i \in 1..Len(errors) |-> MessageOf(errors[i])], <<NL>>, Len(errors))

ExpectedTrace(errors) ==
    LET stacked == SelectSeq(errors, HasStack)
    IN  Glued([i \in 1..Len(stacked) |-> stacked[i].stack], <<NL, NL>>,
              Len(stacked))

\* C7: for a result whose state is not exactly failed the failure details
\* have no message, no trace and no line; for a failed one the message is the
\* errors' messages in order with one newline between them, and the trace is
\* the stacks of the errors that have one, in order, with two newlines
\* between them.
C7_FailureDetails ==
    \A i \in 1..Len(Tests) :
        IF NativeState(completed[i]) = Failed
        THEN /\ Tests[i].message = ExpectedMessage(completed[i].result.errors)
             /\ Tests[i].trace = ExpectedTrace(completed[i].result.errors)
        ELSE /\ Tests[i].message = Undefined
             /\ Tests[i].trace = Undefined
             /\ "line" \notin DOMAIN Tests[i]

C7_Witness ==
    /\ Len(Tests) = 1
    /\ NativeState(completed[1]) = Failed
    /\ Len(completed[1].result.errors) = 2
    /\ HasStack(completed[1].result.errors[1])
    /\ ~HasStack(completed[1].result.errors[2])
    /\ Tests[1].message = <<"A", NL, "B">>
    /\ Tests[1].trace = completed[1].result.errors[1].stack

RECURSIVE AllFrames(_)
\* the frames the stacks of the errors were printed from, in trace order
AllFrames(errors) ==
    IF errors = <<>> THEN <<>>
    ELSE (IF HasStack(Head(errors)) THEN Head(errors).stacks ELSE <<>>)
         \o AllFrames(Tail(errors))

\* the frame's file is the test's own file, /t/f
IsOwnFile(file, dir) ==
    \/ file \in {OwnFile, OwnFileAlias}
    \/ file = OwnFileRelative /\ dir = WorkDir

RECURSIVE ExpectedLine(_, _)
\* the line of the first frame in the test's own file, as <<n>>; <<>> when
\* there is none or a relative file cannot be resolved before one is found
ExpectedLine(frames, dir) ==
    IF frames = <<>> THEN <<>>
    ELSE IF ~IsAbsolute(Head(frames).file) /\ dir = Undefined THEN <<>>
         ELSE IF IsOwnFile(Head(frames).file, dir) THEN <<Head(frames).line>>
              ELSE ExpectedLine(Tail(frames), dir)

\* C8: the record of a failed test has the line of the first frame of the
\* trace whose file resolves to the test's own file, however many frames of
\* other files come before it; it has no line when there is no such frame,
\* when resolving a path raises, or when the test's file is not known; and
\* no error escapes.
C8_LineResolution ==
    /\ thrown = "none"
    /\ \A i \in 1..Len(Tests) :
        NativeState(completed[i]) = Failed =>
            LET expected ==
                    IF completed[i].module.moduleId = <<>> THEN <<>>
                    ELSE ExpectedLine(AllFrames(completed[i].result.errors),
                                      cwd)
            IN  IF expected = <<>> THEN "line" \notin DOMAIN Tests[i]
                ELSE "line" \in DOMAIN Tests[i] /\ Tests[i].line = expected[1]

C8_Witness ==
    /\ Len(Tests) = 1
    /\ NativeState(completed[1]) = Failed
    /\ Len(completed[1].result.errors) = 2
    /\ completed[1].result.errors[1].stacks = <<FrameOther, FrameOther>>
    /\ completed[1].result.errors[2].stacks = <<FrameOther, FrameOwn>>
    /\ "line" \in DOMAIN Tests[1]
    /\ Tests[1].line = 42

\* the environment options the constructor was given
SuppliedEnvironment == EnvFields \cap DOMAIN reporterOptions

\* C9: a document has an environment block only once a run has started and
\* only if an environment option was given, and the block then has exactly
\* the given options with their values.
C9_EnvironmentBlock ==
    /\ "environment" \in DOMAIN ctrfReport.results
          <=> (Count("start") > 0 /\ SuppliedEnvironment # {})
    /\ \A doc \in Documents :
          "environment" \in DOMAIN doc.results =>
              /\ DOMAIN doc.results.environment = SuppliedEnvironment
              /\ SuppliedEnvironment # {}
              /\ \A f \in SuppliedEnvironment :
                    doc.results.environment[f] = reporterOptions[f]

C9_Witness ==
    /\ SuppliedEnvironment = {"testEnvironment"}
    /\ \E doc \in WrittenDocuments :
          /\ "environment" \in DOMAIN doc.results
          /\ doc.results.environment.testEnvironment = <<>>

\* the step is an onTestRunEnd whose fs.writeFileSync raised
WriteFailed ==
    /\ Len(fs'.writes) = Len(fs.writes) + 1
    /\ ~fs'.writes[Len(fs'.writes)].ok

\* C10: when the write of onTestRunEnd fails, the call returns without
\* raising, summary.stop holds the time read, the document is otherwise as it
\* was, no file is written, and the one line printed is an error line.
C10_WriteFailureCaught ==
    [][WriteFailed =>
          /\ thrown' = "none"
          /\ ctrfReport'.results.summary.stop = now'
          /\ ctrfReport' = [ctrfReport EXCEPT !.results.summary.stop = now']
          /\ fs'.files = fs.files
          /\ Len(console') = Len(console) + 1
          /\ SubSeq(console', 1, Len(console)) = console
          /\ console'[Len(console')].stream = "error"
          /\ console'[Len(console')].error
                = "EACCES"]_vars

C10_Witness ==
    /\ Len(fs.writes) = 1
    /\ ~fs.writes[1].ok
    /\ Len(Tests) = 2
    /\ Summary.stop = 1
    /\ fs.files = <<>>
    /\ Len(console) = 1
    /\ console[1].stream = "error"

\* the step is the lifecycle call named kind
StepOf(kind) == calls' = Append(calls, kind)

\* C11: only onTestRunEnd writes the report: the constructor, onTestRunStart
\* and onTestCaseResult attempt no write and change no file, so without an
\* onTestRunEnd no write was attempted; each onTestRunEnd attempts exactly one
\* write, to outputDir/filename, and a write that succeeds leaves there the
\* whole document, with a record for every test case completed so far.
C11_WrittenOnlyAtRunEnd ==
    /\ [](Len(fs.writes) = Count("end"))
    /\ [][IF StepOf("end")
          THEN LET target == reporterConfigOptions.outputDir \o <<"/">>
                               \o filename
                   attempt == fs'.writes[Len(fs'.writes)]
               IN  /\ fs'.writes = Append(fs.writes, attempt)
                   /\ attempt.path = target
                   /\ fs'.dirs = fs.dirs
                   /\ IF attempt.ok
                      THEN /\ DOMAIN fs'.files = DOMAIN fs.files \cup {target}
                           /\ \A q \in DOMAIN fs.files \ {target} :
                                 fs'.files[q] = fs.files[q]
                           /\ fs'.files[target] = JSONstringify(ctrfReport')
                           /\ Len(fs'.files[target].results.tests)
                                 = Len(completed)
                      ELSE fs'.files = fs.files
          ELSE /\ fs'.writes = fs.writes
               /\ fs'.files = fs.files]_vars

C11_Witness ==
    /\ calls = <<"new", "test", "end">>
    /\ Len(fs.writes) = 1
    /\ fs.writes[1].ok
    /\ fs.writes[1].path
          = <<"a", "/", "b", "/", "r", ".", "j", "s", "o", "n">>
    /\ Len(fs.files[fs.writes[1].path].results.tests) = 1
    /\ fs.files[fs.writes[1].path].results.summary.failed = 1

\* the onTestRunStart and onTestRunEnd calls made, in order
RunCalls == SelectSeq(calls, LAMBDA c : c \in {"start", "end"})

\* the latest of them is an onTestRunEnd
EndedLast == RunCalls # <<>> /\ RunCalls[Len(RunCalls)] = "end"

\* C12 as stated: summary.start <= summary.stop in every state in which both
\* onTestRunStart and onTestRunEnd have been called.
C12_StartNotAfterStop ==
    (Count("start") > 0 /\ Count("end") > 0) => Summary.start <= Summary.stop

\* C12: summary.start <= summary.stop from each onTestRunEnd until the next
\* onTestRunStart, and so in every document written.
C12_StartNotAfterStopAtRunEnd ==
    /\ EndedLast => Summary.start <= Summary.stop
    /\ \A doc \in WrittenDocuments :
          doc.results.summary.start <= doc.results.summary.stop

C12_Witness ==
    /\ calls = <<"start", "end", "start", "end">>
    /\ Summary.start = 1
    /\ Summary.stop = 1
    /\ \E doc \in WrittenDocuments : doc.results.summary.start = 1

\* the output file name the constructor resolved
ResolvedOutputFile ==
    Coalesce(Get(reporterOptions, "outputFile"), defaultOutputFile)

\* C13: once the constructor has returned, and whatever is called later, the
\* filename is the output file name itself when that ends in .json and the
\* name with .json appended once when it does not; it ends in .json, and
\* normalizing it again gives it back.
C13_FilenameNormalized ==
    Returned =>
        /\ EndsWith(ResolvedOutputFile, DotJson)
              => filename = ResolvedOutputFile
        /\ ~EndsWith(ResolvedOutputFile, DotJson)
              => /\ filename = ResolvedOutputFile \o DotJson
                 /\ Len(filename) = Len(ResolvedOutputFile) + 5
        /\ Len(filename) >= 5
        /\ SubSeq(filename, Len(filename) - 4, Len(filename))
              = <<".", "j", "s", "o", "n">>
        /\ setFilename(filename) = filename

C13_Witness ==
    /\ Returned
    /\ ResolvedOutputFile = <<"r", ".", "J", "S", "O", "N">>
    /\ filename = <<"r", ".", "J", "S", "O", "N", ".", "j", "s", "o", "n">>
    /\ Count("end") = 1

\* the step is the constructor, called with an output directory of this name
ConstructorStep == calls = <<>> /\ calls' = <<"new">>

ConfiguredOutputDir ==
    Coalesce(Get(reporterOptions, "outputDir"), defaultOutputDir)

\* C14: a constructor that returns leaves the configured output directory in
\* existence; a directory that was there already is left as it was, with the
\* files in it; and a constructor whose fs.mkdirSync raises lets that error
\* escape and creates nothing.
C14_DirectoryEnsured ==
    [][ConstructorStep =>
          /\ thrown' = "none" => ConfiguredOutputDir \in fs'.dirs
          /\ ConfiguredOutputDir \in fs.dirs
                => (fs' = fs /\ thrown' = "none")
          /\ thrown' # "none" => fs' = fs
          /\ fs'.files = fs.files]_vars

\* the constructor has returned although a regular file has the name of the
\* output directory
C14_FileInPlaceOfDirectory ==
    /\ Returned
    /\ ConfiguredOutputDir \notin fs.dirs
    /\ ConfiguredOutputDir \in DOMAIN fs.files

\* C15: each of the five status counters is the number of records in tests
\* with that status.
C15_CountersMatchRecords ==
    \A s \in CtrfStates :
        Summary[CounterOf(s)]
          = Cardinality({i \in DOMAIN Tests : Tests[i].status = s})

C15_Witness ==
    /\ Len(completed) = 4
    /\ Len(Tests) = 3
    /\ Summary.failed = 1
    /\ Summary.other = 1
    /\ Summary.pending = 1
    /\ Summary.passed = 0

Counters == {"tests", "passed", "failed", "pending", "skipped", "other"}

\* C16: the six counters are 0 and tests is empty after construction; no call
\* lowers a counter or shortens tests; and onTestRunStart and onTestRunEnd,
\* repeated or not, leave the counters and tests as they were.
C16_CountersNeverDecrease ==
    /\ \A c \in Counters : Summary[c] = 0
    /\ Tests = <<>>
    /\ [][/\ \A c \in Counters : Summary'[c] >= Summary[c]
          /\ Len(Tests') >= Len(Tests)
          /\ (StepOf("start") \/ StepOf("end"))
                => /\ \A c \in Counters : Summary'[c] = Summary[c]
                   /\ Tests' = Tests]_vars

C16_Witness ==
    /\ calls = <<"start", "test", "end", "start">>
    /\ Summary.tests = 1
    /\ Summary.skipped = 1
    /\ Len(Tests) = 1
    /\ Summary.start = 1

\* C17: onTestCaseResult appends one record to tests and adds one to
\* summary.tests and to the counter of the record's status; it changes nothing
\* else: not the other counters, summary.start, summary.stop, the tool, the
\* environment, the options, the filename, the files or the console.  Once
\* onTestRunStart has been called no call changes the environment.
C17_TestCaseFrame ==
    /\ [][StepOf("test") =>
            LET record == Tests'[Len(Tests')]
                counter == CounterOf(record.status)
            IN  /\ Tests' = Append(Tests, record)
                /\ Summary'.tests = Summary.tests + 1
                /\ Summary'[counter] = Summary[counter] + 1
                /\ \A c \in DOMAIN Summary \ {"tests", counter} :
                      Summary'[c] = Summary[c]
                /\ DOMAIN ctrfReport'.results = DOMAIN ctrfReport.results
                /\ \A k \in DOMAIN ctrfReport.results \ {"tests", "summary"} :
                      ctrfReport'.results[k] = ctrfReport.results[k]
                /\ UNCHANGED <<reporterOptions, reporterConfigOptions,
                               ctrfEnvironment, filename, fs, console>>]_vars
    /\ [][Count("start") > 0 =>
            /\ ctrfEnvironment' = ctrfEnvironment
            /\ ("environment" \in DOMAIN ctrfReport'.results)
                  <=> ("environment" \in DOMAIN ctrfReport.results)
            /\ "environment" \in DOMAIN ctrfReport.results
                  => ctrfReport'.results.environment
                       = ctrfReport.results.environment]_vars

C17_Witness ==
    /\ calls = <<"start", "end", "test", "start">>
    /\ "environment" \in DOMAIN ctrfReport.results
    /\ ctrfReport.results.environment = ctrfEnvironment
    /\ DOMAIN ctrfEnvironment = {"appName", "testEnvironment"}
    /\ Summary.stop = 0
    /\ Summary.start = 1
    /\ Summary.pending = 1
    /\ Summary.tests = 1

=============================================================================
